---- MODULE Spec2Model ----
(***************************************************************************)
(* UpgradedElement: the component lifecycle controller, its render         *)
(* scheduling, and the positional tree differ (createDOMMap / createNode / *)
(* diffAttributes / diffDOM) working on a live DOM.                        *)
(*                                                                         *)
(* The live DOM is an arena: a sequence of node records addressed by       *)
(* their index; 0 is JavaScript's null node reference.  Strings whose      *)
(* characters the code inspects (attribute values, style text) are         *)
(* sequences of one-character strings; other strings are atoms.            *)
(***************************************************************************)
EXTENDS Integers, Sequences, FiniteSets, TLC

-----------------------------------------------------------------------------
(* JavaScript values                                                       *)

\* null / undefined, where the code compares it with a string
Null == "null"

\* "true", what String(true) gives when `true` is stored as an attribute value
TrueText == <<"t", "r", "u", "e">>

ELEMENT_NODE == 1
TEXT_NODE == 3
COMMENT_NODE == 8
DOCUMENT_FRAGMENT_NODE == 11

\* no exception pending
NoError == "none"

-----------------------------------------------------------------------------
(* Character sequences: split, trim, indexOf                               *)

RECURSIVE indexOfFrom(_, _, _)
indexOfFrom(s, c, i) ==
  IF i > Len(s) THEN -1
  ELSE IF s[i] = c THEN i - 1
  ELSE indexOfFrom(s, c, i + 1)

\* String.prototype.indexOf for a one-character needle: 0-based, -1 when absent
indexOf(s, c) == indexOfFrom(s, c, 1)

RECURSIVE trimStart(_)
trimStart(s) ==
  IF s # <<>> /\ Head(s) = " " THEN trimStart(Tail(s)) ELSE s

RECURSIVE trimEnd(_)
trimEnd(s) ==
  IF s # <<>> /\ s[Len(s)] = " " THEN trimEnd(SubSeq(s, 1, Len(s) - 1)) ELSE s

\* String.prototype.trim
trim(s) == trimEnd(trimStart(s))

RECURSIVE split(_, _)
\* String.prototype.split for a one-character separator
split(s, c) ==
  LET i == indexOf(s, c)
  IN IF i < 0 THEN <<s>>
     ELSE <<SubSeq(s, 1, i)>> \o split(SubSeq(s, i + 2, Len(s)), c)

RECURSIVE SeqFilterOut(_, _)
\* the sequence s without the entries equal to x
SeqFilterOut(s, x) ==
  IF s = <<>> THEN <<>>
  ELSE IF Head(s) = x THEN SeqFilterOut(Tail(s), x)
  ELSE <<Head(s)>> \o SeqFilterOut(Tail(s), x)

-----------------------------------------------------------------------------
(* The DOM the code runs on                                                *)

\* tagName of an HTML element is upper case; toLowerCase undoes it
toUpperCase(t) ==
  CASE t = "p" -> "P"
    [] t = "span" -> "SPAN"
    [] t = "div" -> "DIV"
    [] t = "b" -> "B"
    [] t = "style" -> "STYLE"
    [] OTHER -> t

toLowerCase(t) ==
  CASE t = "P" -> "p"
    [] t = "SPAN" -> "span"
    [] t = "DIV" -> "div"
    [] t = "B" -> "b"
    [] t = "STYLE" -> "style"
    [] OTHER -> t

\* a node record of the arena
NewNodeRec(nodeType, tagName, isSVG, data) ==
  [nodeType |-> nodeType, tagName |-> tagName, isSVG |-> isSVG,
   attributes |-> <<>>, data |-> data, childNodes |-> <<>>, parentNode |-> 0]

\* a DOM under mutation: the arena, the number of mutations made, the
\* exception thrown (NoError while none)
Dom(nodes, muts, err) == [nodes |-> nodes, muts |-> muts, err |-> err]

Throw(d, e) == [d EXCEPT !.err = e]

\* the DOM with its arena replaced, one mutation made
Mutated(d, nodes) == [d EXCEPT !.nodes = nodes, !.muts = @ + 1]

\* document.create...: a node made; its reference is Len(d.nodes) + 1
Alloc(d, rec) == Mutated(d, Append(d.nodes, rec))

RECURSIVE SetParents(_, _, _)
SetParents(nodes, ids, p) ==
  IF ids = <<>> THEN nodes
  ELSE SetParents([nodes EXCEPT ![Head(ids)].parentNode = p], Tail(ids), p)

\* unlink a node from its parent, if it has one
Unlink(nodes, id) ==
  IF nodes[id].parentNode = 0 THEN nodes
  ELSE [nodes EXCEPT ![nodes[id].parentNode].childNodes = SeqFilterOut(@, id),
                     ![id].parentNode = 0]

\* Node.removeChild
removeChild(d, parent, child) == Mutated(d, Unlink(d.nodes, child))

\* a node linked as the last child of parent, in an arena where it has no parent
Linked(nodes, parent, child) ==
  [nodes EXCEPT ![parent].childNodes = Append(@, child),
                ![child].parentNode = parent]

\* the children of a fragment handed over to parent
Adopted(nodes, parent, fragment) ==
  [SetParents(nodes, nodes[fragment].childNodes, parent)
     EXCEPT ![fragment].childNodes = <<>>,
            ![parent].childNodes = @ \o nodes[fragment].childNodes]

\* Node.appendChild; a document fragment hands over its children instead
appendChild(d, parent, child) ==
  IF d.nodes[child].nodeType = DOCUMENT_FRAGMENT_NODE
  THEN Mutated(d, Adopted(d.nodes, parent, child))
  ELSE Mutated(d, Linked(Unlink(d.nodes, child), parent, child))

\* newChild put where oldChild is among the children of parent
Swapped(nodes, parent, newChild, oldChild) ==
  [nodes EXCEPT ![parent].childNodes =
                  [i \in 1..Len(@) |-> IF @[i] = oldChild THEN newChild ELSE @[i]],
                ![oldChild].parentNode = 0,
                ![newChild].parentNode = parent]

\* Node.replaceChild(newChild, oldChild)
replaceChild(d, parent, newChild, oldChild) ==
  Mutated(d, Swapped(Unlink(d.nodes, newChild), parent, newChild, oldChild))

RECURSIVE attrIndexFrom(_, _, _)
attrIndexFrom(attrs, name, i) ==
  IF i > Len(attrs) THEN 0
  ELSE IF attrs[i].name = name THEN i
  ELSE attrIndexFrom(attrs, name, i + 1)

\* position of the attribute called name, 0 when absent
attrIndex(attrs, name) == attrIndexFrom(attrs, name, 1)

\* the attribute list with the value at position i, or appended when i is 0
AttributeAt(attrs, i, name, value) ==
  IF i = 0 THEN Append(attrs, [name |-> name, value |-> value])
  ELSE [attrs EXCEPT ![i].value = value]

\* the attribute list with name set to value: in place, or appended
WithAttribute(attrs, name, value) ==
  AttributeAt(attrs, attrIndex(attrs, name), name, value)

RECURSIVE WithoutAttribute(_, _)
WithoutAttribute(attrs, name) ==
  IF attrs = <<>> THEN <<>>
  ELSE IF Head(attrs).name = name THEN WithoutAttribute(Tail(attrs), name)
  ELSE <<Head(attrs)>> \o WithoutAttribute(Tail(attrs), name)

\* Element.setAttribute
setAttribute(d, node, name, value) ==
  Mutated(d, [d.nodes EXCEPT ![node].attributes = WithAttribute(@, name, value)])

\* Element.removeAttribute
removeAttribute(d, node, name) ==
  Mutated(d, [d.nodes EXCEPT ![node].attributes = WithoutAttribute(@, name)])

\* element.className = value: the class attribute, reflected
setClassName(d, node, value) == setAttribute(d, node, "class", value)

\* unlink every child of a node
ClearChildren(nodes, node) ==
  [SetParents(nodes, nodes[node].childNodes, 0) EXCEPT ![node].childNodes = <<>>]

\* an element without children given one text child, unless the text is empty
WithText(nodes, node, v) ==
  IF v = "" THEN nodes
  ELSE [Append(nodes, [NewNodeRec(TEXT_NODE, "", FALSE, v)
                         EXCEPT !.parentNode = node])
          EXCEPT ![node].childNodes = <<Len(nodes) + 1>>]

\* null written as text is the empty string
textOf(value) == IF value = Null THEN "" ELSE value

\* node.textContent = value: character data is overwritten; an element loses
\* its children and gets one text child unless the value is empty
setTextContent(d, node, value) ==
  IF d.nodes[node].nodeType \in {TEXT_NODE, COMMENT_NODE}
  THEN Mutated(d, [d.nodes EXCEPT ![node].data = textOf(value)])
  ELSE Mutated(d, WithText(ClearChildren(d.nodes, node), node, textOf(value)))

\* node.innerHTML = ""
clearInnerHTML(d, node) == Mutated(d, ClearChildren(d.nodes, node))

\* node.textContent read on a node without children
textContent(nodes, node) ==
  IF nodes[node].nodeType \in {TEXT_NODE, COMMENT_NODE}
  THEN nodes[node].data ELSE ""

-----------------------------------------------------------------------------
(* Inline style: element.style is the parsed style attribute               *)

\* what a string has for a property it does not have (style.name on a name)
Undefined == <<"u", "n", "d", "e", "f", "i", "n", "e", "d">>

\* one "name: value" entry, trimmed, with the position i of its colon, added
\* to the declarations; a later declaration of a name replaces the earlier
declared(decls, entry, i) ==
  IF i > 0 /\ trim(SubSeq(entry, i + 2, Len(entry))) # <<>>
  THEN Append(WithoutAttribute(decls, trim(SubSeq(entry, 1, i))),
              [name |-> trim(SubSeq(entry, 1, i)),
               value |-> trim(SubSeq(entry, i + 2, Len(entry)))])
  ELSE decls

declare(decls, entry) == declared(decls, entry, indexOf(entry, ":"))

RECURSIVE declsOf(_)
\* the declarations of a list of "name: value" entries
declsOf(entries) ==
  IF entries = <<>> THEN <<>>
  ELSE declare(declsOf(SubSeq(entries, 1, Len(entries) - 1)),
               trim(entries[Len(entries)]))

\* the declarations of an attribute list whose style attribute is at i
styleAt(attributes, i) ==
  IF i = 0 THEN <<>> ELSE declsOf(split(attributes[i].value, ";"))

\* the CSSStyleDeclaration of an element: the declarations of its style attribute
elementStyle(nodes, node) ==
  styleAt(nodes[node].attributes, attrIndex(nodes[node].attributes, "style"))

RECURSIVE cssText(_)
\* the serialisation "name: value; name: value;" of a declaration list
cssText(decls) ==
  IF decls = <<>> THEN <<>>
  ELSE Head(decls).name \o <<":", " ">> \o Head(decls).value \o <<";">>
       \o (IF Len(decls) > 1 THEN <<" ">> ELSE <<>>) \o cssText(Tail(decls))

\* the declarations decls of a node replaced by next
styleSet(d, node, decls, next) ==
  IF next = decls /\ attrIndex(d.nodes[node].attributes, "style") = 0
  THEN Mutated(d, d.nodes)
  ELSE setAttribute(d, node, "style", cssText(next))

\* the declarations with name set to value, or removed when value is empty
styleWith(decls, name, value) ==
  IF value = <<>> THEN WithoutAttribute(decls, name)
  ELSE WithAttribute(decls, name, value)

styleChanged(d, node, decls, name, value) ==
  styleSet(d, node, decls, styleWith(decls, name, value))

\* element.style[name] = value: the empty string removes the property; a
\* name that is no CSS property (undefined) leaves the declarations alone
setStyleProperty(d, node, name, value) ==
  IF name = Undefined THEN d
  ELSE styleChanged(d, node, elementStyle(d.nodes, node), name, value)

\* the names of a declaration list
namesOf(decls) == [i \in 1..Len(decls) |-> decls[i].name]

\* the property names a CSSStyleDeclaration enumerates
styleNames(nodes, node) == namesOf(elementStyle(nodes, node))

\* the value at position i of a declaration list, empty when i is 0
valueAt(decls, i) == IF i = 0 THEN <<>> ELSE decls[i].value

valueIn(decls, name) == valueAt(decls, attrIndex(decls, name))

\* element.style[name]: the empty string for a property that is not set
styleValue(nodes, node, name) == valueIn(elementStyle(nodes, node), name)

-----------------------------------------------------------------------------
(* Markup: what DOMParser makes of a template string                       *)

\* one parsed node of a template: type is a tag name, "#text" or "#comment"
Markup(type, attributes, data, children) ==
  [type |-> type, attributes |-> attributes, data |-> data, children |-> children]

Attr(name, value) == [name |-> name, value |-> value]

\* the node record DOMParser makes of one parsed node
parsedRec(m, svg, parent) ==
  IF m.type = "#text"
  THEN [NewNodeRec(TEXT_NODE, "", FALSE, m.data) EXCEPT !.parentNode = parent]
  ELSE IF m.type = "#comment"
  THEN [NewNodeRec(COMMENT_NODE, "", FALSE, m.data) EXCEPT !.parentNode = parent]
  ELSE [NewNodeRec(ELEMENT_NODE, IF svg THEN m.type ELSE toUpperCase(m.type), svg, "")
          EXCEPT !.attributes = m.attributes, !.parentNode = parent]

\* the arena with one more node, the last child of parent
parsedChild(nodes, parent, rec) ==
  [Append(nodes, rec) EXCEPT ![parent].childNodes = Append(@, Len(nodes) + 1)]

RECURSIVE parseInto(_, _, _, _)

\* one parsed node built as the next child of parent, with its descendants
parseNode(nodes, parent, m, svg) ==
  parseInto(parsedChild(nodes, parent, parsedRec(m, svg, parent)),
            Len(nodes) + 1, m.children, svg)

\* the arena with the nodes of markup ms built as the next children of parent
parseInto(nodes, parent, ms, inSVG) ==
  IF ms = <<>> THEN nodes
  ELSE parseInto(parseNode(nodes, parent, Head(ms), inSVG \/ Head(ms).type = "svg"),
                 parent, Tail(ms), inSVG)

\* stringToHTML: a new document body holding the parsed template; the body
\* is at Len(nodes) + 1 of the arena given
stringToHTML(nodes, domString) ==
  parseInto(Append(nodes, NewNodeRec(ELEMENT_NODE, "BODY", FALSE, "")),
            Len(nodes) + 1, domString, FALSE)

-----------------------------------------------------------------------------
(* The tree differ                                                         *)

\* getAttributes: the name/value pairs of a NamedNodeMap
getAttributes(attributes) ==
  [i \in 1..Len(attributes) |->
     [name |-> attributes[i].name, value |-> attributes[i].value]]

\* the type createDOMMap records for a node
typeOf(rec) ==
  IF rec.nodeType = TEXT_NODE THEN "text"
  ELSE IF rec.nodeType = COMMENT_NODE THEN "comment"
  ELSE toLowerCase(rec.tagName)

RECURSIVE createDOMMap(_, _, _)
\* createDOMMap(element, isSVG): the description of element's child nodes
createDOMMap(nodes, element, isSVG) ==
  [i \in 1..Len(nodes[element].childNodes) |->
     [node |-> nodes[element].childNodes[i],
      content |-> IF Len(nodes[nodes[element].childNodes[i]].childNodes) > 0 THEN Null
                  ELSE textContent(nodes, nodes[element].childNodes[i]),
      attributes |-> IF nodes[nodes[element].childNodes[i]].nodeType = ELEMENT_NODE
                     THEN getAttributes(nodes[nodes[element].childNodes[i]].attributes)
                     ELSE <<>>,
      type |-> typeOf(nodes[nodes[element].childNodes[i]]),
      isSVG |-> isSVG \/ typeOf(nodes[nodes[element].childNodes[i]]) = "svg",
      children |-> createDOMMap(nodes, nodes[element].childNodes[i],
                     isSVG \/ typeOf(nodes[nodes[element].childNodes[i]]) = "svg")]]

\* one entry of a style string split at its colons, as a name/value pair
styleEntry(parts) ==
  [name |-> IF parts[1] # <<>> THEN trim(parts[1]) ELSE <<>>,
   value |-> IF parts[2] # <<>> THEN trim(parts[2]) ELSE <<>>]

\* the entries of a style string that hold a colon past their first character
styleEntries(entry) ==
  IF indexOf(entry, ":") > 0 THEN <<styleEntry(split(entry, ":"))>> ELSE <<>>

RECURSIVE getStyleMapOf(_)
getStyleMapOf(entries) ==
  IF entries = <<>> THEN <<>>
  ELSE styleEntries(trim(Head(entries))) \o getStyleMapOf(Tail(entries))

\* getStyleMap(styles): the name/value pairs of a style string
getStyleMap(styles) == getStyleMapOf(split(styles, ";"))

\* style.name where style is a string: strings have no such property
nameOfString(style) == Undefined

RECURSIVE removeStyles(_, _, _)
\* removeStyles(element, styles): element.style[style.name] = "" for each;
\* both callers pass property names, strings, whose .name is undefined
removeStyles(d, element, styles) ==
  IF styles = <<>> THEN d
  ELSE removeStyles(setStyleProperty(d, element, nameOfString(Head(styles)), <<>>),
                    element, Tail(styles))

RECURSIVE changeStyles(_, _, _)
\* changeStyles(element, styles): element.style[style.name] = style.value
changeStyles(d, element, styles) ==
  IF styles = <<>> THEN d
  ELSE changeStyles(setStyleProperty(d, element, Head(styles).name, Head(styles).value),
                    element, Tail(styles))

\* diffStyles' filter: the current properties the new style map does not
\* hold with the same value
staleStyles(current, styleMap) ==
  SelectSeq(namesOf(current),
            LAMBDA style :
              ~\E j \in 1..Len(styleMap) :
                 /\ styleMap[j].name = style
                 /\ styleMap[j].value = valueIn(current, style))

\* diffStyles once the style string is a map and element.style is read
diffStyleMap(d, element, styleMap, current) ==
  changeStyles(removeStyles(d, element, staleStyles(current, styleMap)),
               element, styleMap)

\* diffStyles(element, styles)
diffStyles(d, element, styles) ==
  diffStyleMap(d, element, getStyleMap(styles), elementStyle(d.nodes, element))

\* removeAttributes' loop body
removeOne(d, element, attribute) ==
  IF attribute.name = "class" THEN setClassName(d, element, <<>>)
  ELSE IF attribute.name = "style"
  THEN removeStyles(d, element, styleNames(d.nodes, element))
  ELSE removeAttribute(d, element, attribute.name)

RECURSIVE removeAttributes(_, _, _)
\* removeAttributes(element, attributes)
removeAttributes(d, element, attributes) ==
  IF attributes = <<>> THEN d
  ELSE removeAttributes(removeOne(d, element, Head(attributes)),
                        element, Tail(attributes))

\* attribute.value || true, as setAttribute stores it
valueOrTrue(value) == IF value # <<>> THEN value ELSE TrueText

\* addAttributes' loop body; an empty value is stored as `true`
addOne(d, element, attribute) ==
  IF attribute.name = "class" THEN setClassName(d, element, attribute.value)
  ELSE IF attribute.name = "style" THEN diffStyles(d, element, attribute.value)
  ELSE setAttribute(d, element, attribute.name, valueOrTrue(attribute.value))

RECURSIVE addAttributes(_, _, _)
\* addAttributes(element, attributes)
addAttributes(d, element, attributes) ==
  IF attributes = <<>> THEN d
  ELSE addAttributes(addOne(d, element, Head(attributes)), element, Tail(attributes))

\* what createNode hands back: the DOM and the node made
Made(d, node) == [d |-> d, node |-> node]

\* parent.appendChild(made node)
appendMade(made, parent) == appendChild(made.d, parent, made.node)

\* the record document.createTextNode / createComment / createElementNS /
\* createElement makes for a description
createdRec(element) ==
  IF element.type = "text" THEN NewNodeRec(TEXT_NODE, "", FALSE, element.content)
  ELSE IF element.type = "comment"
  THEN NewNodeRec(COMMENT_NODE, "", FALSE, element.content)
  ELSE IF element.isSVG THEN NewNodeRec(ELEMENT_NODE, element.type, TRUE, "")
  ELSE NewNodeRec(ELEMENT_NODE, toUpperCase(element.type), FALSE, "")

RECURSIVE createNode(_, _)

RECURSIVE createChildren(_, _, _)
\* createNode's children.forEach: node.appendChild(createNode(childElement))
createChildren(d, node, children) ==
  IF children = <<>> THEN d
  ELSE createChildren(appendMade(createNode(d, Head(children)), node),
                      node, Tail(children))

\* createNode after addAttributes: the children, or else the content
createContent(d, node, element) ==
  IF Len(element.children) > 0 THEN createChildren(d, node, element.children)
  ELSE IF element.type # "text" THEN setTextContent(d, node, element.content)
  ELSE d

\* createNode once the node exists, as the last of the arena
createInto(d, node, element) ==
  Made(createContent(addAttributes(d, node, element.attributes), node, element), node)

\* createNode(element): a new live node built from a description
createNode(d, element) ==
  createInto(Alloc(d, createdRec(element)), Len(d.nodes) + 1, element)

\* find(array, callback) with callback = "has this name": the first entry
\* of that name, as a one-element sequence, or the empty sequence (undefined)
find(attributes, name) ==
  IF attrIndex(attributes, name) = 0 THEN <<>>
  ELSE <<attributes[attrIndex(attributes, name)]>>

\* getChangingAttributes' test on what find returned
isChanging(newAttributes, attribute) ==
  \/ newAttributes = <<>>
  \/ newAttributes[1].value # attribute.value

\* a diffAttributes that removes nothing
diffAttributesAddingOnly(d, template, existing) ==
  addAttributes(d, existing.node,
    SelectSeq(template.attributes,
              LAMBDA attribute :
                isChanging(find(existing.attributes, attribute.name), attribute)))

\* diffAttributes(template, existing)
diffAttributes(d, template, existing) ==
  removeAttributes(
    addAttributes(d, existing.node,
      SelectSeq(template.attributes,
                LAMBDA attribute :
                  isChanging(find(existing.attributes, attribute.name), attribute))),
    existing.node,
    SelectSeq(existing.attributes,
              LAMBDA attribute : find(template.attributes, attribute.name) = <<>>))

\* a first loop of diffDOM that removes nothing
removeMissingNothing(d, domMap, count) == d

\* child.node.parentNode.removeChild(child.node)
removeFrom(d, parent, child) ==
  IF parent = 0 THEN Throw(d, "TypeError") ELSE removeChild(d, parent, child)

RECURSIVE removeMissing(_, _, _)
\* diffDOM's first loop: remove the trailing count entries of domMap
removeMissing(d, domMap, count) ==
  IF count <= 0 \/ d.err # NoError THEN d
  ELSE removeMissing(
         removeFrom(d, d.nodes[domMap[Len(domMap) - count + 1].node].parentNode,
                    domMap[Len(domMap) - count + 1].node),
         domMap, count - 1)

RECURSIVE diffDOM(_, _, _, _)

\* 2. existing.node.parentNode.replaceChild(createNode(template), existing.node)
replaceMade(made, parent, oldChild) ==
  replaceChild(made.d, parent, made.node, oldChild)

\* a step 2 that leaves the node of the other type where it is
replaceNodeSkipped(d, templateChildNode, existingChildNode, parent) == d

replaceNode(d, templateChildNode, existingChildNode, parent) ==
  IF parent = 0 THEN Throw(d, "TypeError")
  ELSE replaceMade(createNode(d, templateChildNode), parent, existingChildNode.node)

\* 5b. the children are built in a fragment, which is appended to element
appendFragment(d, element, fragment) ==
  IF d.err # NoError THEN d ELSE appendChild(d, element, fragment)

diffIntoFragment(d, fragment, node, existingChildNode, element) ==
  appendFragment(diffDOM(d, node.children, existingChildNode.children, fragment),
                 element, fragment)

\* steps 4 and 5 that write nothing
diffContentUnwritten(d, node, existingChildNode, element) == d

\* 4, 5. content and children of a node whose attributes are reconciled
diffContent(d, node, existingChildNode, element) ==
  IF node.content # existingChildNode.content
  THEN setTextContent(d, existingChildNode.node, node.content)
  ELSE IF Len(existingChildNode.children) > 0 /\ Len(node.children) < 1
  THEN clearInnerHTML(d, existingChildNode.node)
  ELSE IF Len(existingChildNode.children) < 1 /\ Len(node.children) > 0
  THEN diffIntoFragment(Alloc(d, NewNodeRec(DOCUMENT_FRAGMENT_NODE, "", FALSE, "")),
                        Len(d.nodes) + 1, node, existingChildNode, element)
  ELSE IF Len(node.children) > 0
  THEN diffDOM(d, node.children, existingChildNode.children, existingChildNode.node)
  ELSE d

\* a callback of templateMap.forEach without step 1: a description beyond
\* current's last gets no node
diffNodeNotAppending(d, node, domMap, element, index) ==
  IF index > Len(domMap) THEN d
  ELSE IF node.type # domMap[index].type
  THEN replaceNode(d, node, domMap[index], d.nodes[domMap[index].node].parentNode)
  ELSE diffContent(diffAttributes(d, node, domMap[index]), node, domMap[index], element)

\* the callback of templateMap.forEach
diffNode(d, node, domMap, element, index) ==
  IF index > Len(domMap)
  THEN appendMade(createNode(d, node), element)
  ELSE IF node.type # domMap[index].type
  THEN replaceNode(d, node, domMap[index], d.nodes[domMap[index].node].parentNode)
  ELSE diffContent(diffAttributes(d, node, domMap[index]), node, domMap[index], element)

RECURSIVE diffEach(_, _, _, _, _)
\* templateMap.forEach from index on; an exception ends it
diffEach(d, templateMap, domMap, element, index) ==
  IF index > Len(templateMap) \/ d.err # NoError THEN d
  ELSE diffEach(diffNode(d, templateMap[index], domMap, element, index),
                templateMap, domMap, element, index + 1)

\* diffDOM(templateMap, domMap, element)
diffDOM(d, templateMap, domMap, element) ==
  diffEach(removeMissing(d, domMap, Len(domMap) - Len(templateMap)),
           templateMap, domMap, element, 1)

RECURSIVE renderMapToDOM(_, _, _)
\* renderMapToDOM(templateMap, root): root.appendChild(element.node) for each
renderMapToDOM(d, templateMap, root) ==
  IF templateMap = <<>> THEN d
  ELSE renderMapToDOM(appendChild(d, root, Head(templateMap).node),
                      Tail(templateMap), root)

-----------------------------------------------------------------------------
(* Bounds and inputs                                                       *)

\* notifications, requests and ticks in one run
MaxSteps == 7

One == <<"1">>
Two == <<"2">>

\* the template strings the component's render() returns, parsed
TemplateA ==
  <<Markup("p", <<Attr("a", One)>>, "", <<Markup("#text", <<>>, "hi", <<>>)>>)>>

TemplateB ==
  <<Markup("p", <<Attr("a", Two)>>, "", <<Markup("#text", <<>>, "hi", <<>>)>>),
    Markup("span", <<>>, "", <<>>)>>

\* what this.render is: a function returning one of the templates, a
\* function returning something that is no string, or no function at all
Renders == {"A", "B", "NonString", "NoRender"}

\* what a render function can be made to return by changing a property
Returns == {"A", "B", "NonString"}

domStringOf(r) == IF r = "A" THEN TemplateA ELSE TemplateB

\* the old and new values an attribute-changed notification carries
AttributeValues == {Null, "on"}

\* static get styles() of the component class
styles == ":host { display: block; }"

TextCss == <<"t", "e", "x", "t", "/", "c", "s", "s">>

-----------------------------------------------------------------------------
(* The component instance                                                  *)

VARIABLES
  isFirstRender,   \* this[internal.isFirstRender]
  isDisconnected,  \* this[internal.isDisconnected]
  vDOM,            \* this[internal.vDOM]: [isNull, map]
  nodes,           \* the DOM arena; node 1 is this[internal.shadowRoot]
  pending,         \* the scheduler's flag for this instance's render function
  render,          \* what this.render is now, one of Renders
  log,             \* the lifecycle hooks invoked so far, with their arguments
  hostAttached,    \* the host's last attach/detach notification was an attach
  last,            \* the handler that ran last: its name and arguments, the
                   \* instance and the requests before it, what it threw,
                   \* its DOM mutations, its render() calls
  steps,           \* how many handlers have run
  passes,          \* the runs of the render function since the last detach:
                   \* what render was, and what the run threw
  detaches,        \* how many detach notifications have been handled
  requests,        \* requestRender() calls since the render function last ran
  requesting,      \* the hooks of the component class that assign this.text
  scenario         \* steps, while the run is a prefix of LifecycleScenario
                   \* with no error; -1 otherwise

vars == <<isFirstRender, isDisconnected, vDOM, nodes, pending, render, log,
          hostAttached, last, steps, passes, detaches, requests, requesting,
          scenario>>

shadowRoot == 1

NullVDOM == [isNull |-> TRUE, map |-> <<>>]

VDOM(map) == [isNull |-> FALSE, map |-> map]

\* the instance as a value: the fields a handler reads and writes, with the
\* DOM under mutation and the count of calls of the user's render()
this ==
  [isFirstRender |-> isFirstRender, isDisconnected |-> isDisconnected,
   vDOM |-> vDOM, dom |-> Dom(nodes, 0, NoError), pending |-> pending,
   render |-> render, log |-> log, renderCalls |-> 0,
   requesting |-> requesting, seen |-> <<>>]

\* the description of the live tree under the shadow root
liveTree(ns) == createDOMMap(ns, shadowRoot, FALSE)

Hook(name, args) == [hook |-> name, args |-> args]

\* the scheduler: one pending flag per render function, set by schedule
schedule(t) == [t EXCEPT !.pending = TRUE]

\* a requestRender() that schedules nothing
requestRenderDropped(t) == t

\* requestRender()
requestRender(t) == schedule(t)

\* a text setter that stores the value and requests nothing
setTextSilently(t, value) == [t EXCEPT !.render = value]

\* set text(value): the value is stored, render() gives another string from
\* now on, and a render is requested
setText(t, value) == requestRender([t EXCEPT !.render = value])

\* the text the mounted hook and the click handler assign: the other one
toggled(r) == IF r = "A" THEN "B" ELSE IF r = "B" THEN "A" ELSE r

\* the body of the hook called name: a hook of t.requesting assigns this.text
hookBody(t, name) ==
  IF name \in t.requesting THEN setText(t, toggled(t.render)) ELSE t

\* what a hook finds when it is entered: the children of the shadow root,
\* the retained tree, the two flags
observed(t) ==
  [childNodes |-> t.dom.nodes[shadowRoot].childNodes, vDOM |-> t.vDOM,
   isDisconnected |-> t.isDisconnected, isFirstRender |-> t.isFirstRender]

\* runLifecycle(name, ...args): the component defines every hook
runLifecycle(t, name, args) ==
  hookBody([t EXCEPT !.log = Append(@, Hook(name, args)),
                     !.seen = Append(@, observed(t))],
           name)

\* the style element made, typed, filled and appended to the shadow root
styleTagInto(d, styleTag) ==
  appendChild(setTextContent(setAttribute(d, styleTag, "type", TextCss),
                             styleTag, styles),
              shadowRoot, styleTag)

\* renderStyles(): a style element with the static styles, into the shadow root
renderStyles(t) ==
  IF styles = Null THEN t
  ELSE [t EXCEPT !.dom =
          styleTagInto(Alloc(t.dom, NewNodeRec(ELEMENT_NODE, "STYLE", FALSE, "")),
                       Len(t.dom.nodes) + 1)]

\* adoptedCallback()
adoptedCallback(t) == [t EXCEPT !.isDisconnected = FALSE]

\* an attributeChangedCallback that does not compare the two values
attributeChangedCallbackUncompared(t, name, oldValue, newValue) ==
  runLifecycle(t, "elementAttributeChanged", <<name, oldValue, newValue>>)

\* attributeChangedCallback(name, oldValue, newValue)
attributeChangedCallback(t, name, oldValue, newValue) ==
  IF oldValue # newValue
  THEN runLifecycle(t, "elementAttributeChanged", <<name, oldValue, newValue>>)
  ELSE t

\* a connectedCallback that does not look at isDisconnected
connectedCallbackUnguarded(t, isConnected) ==
  IF isConnected
  THEN requestRender(renderStyles(runLifecycle(t, "elementDidConnect", <<>>)))
  ELSE t

\* a connectedCallback that injects the styles before it invokes the hook
connectedCallbackStylesFirst(t, isConnected) ==
  IF isConnected /\ ~t.isDisconnected
  THEN requestRender(runLifecycle(renderStyles(t), "elementDidConnect", <<>>))
  ELSE t

\* connectedCallback(), isConnected being this.isConnected
connectedCallback(t, isConnected) ==
  IF isConnected /\ ~t.isDisconnected
  THEN requestRender(renderStyles(runLifecycle(t, "elementDidConnect", <<>>)))
  ELSE t

\* a disconnectedCallback that keeps the retained tree
disconnectedCallbackKeepingTree(t) ==
  [runLifecycle(t, "elementWillUnmount", <<>>) EXCEPT !.isDisconnected = TRUE]

\* disconnectedCallback()
disconnectedCallback(t) ==
  [runLifecycle(t, "elementWillUnmount", <<>>)
     EXCEPT !.vDOM = NullVDOM, !.isDisconnected = TRUE]

\* this.render(), called
rendered(t) == [t EXCEPT !.renderCalls = @ + 1]

\* a getDOMString without the isString test
getDOMStringUnchecked(t) ==
  IF t.render = "NoRender"
  THEN [t |-> [t EXCEPT !.dom = Throw(@, "Error: no render method")],
        domString |-> <<>>]
  ELSE [t |-> rendered(t), domString |-> domStringOf(t.render)]

\* getDOMString(): the instance (render() called, or an Error thrown) and the string
getDOMString(t) ==
  IF t.render = "NoRender"
  THEN [t |-> [t EXCEPT !.dom = Throw(@, "Error: no render method")],
        domString |-> <<>>]
  ELSE IF t.render = "NonString"
  THEN [t |-> [rendered(t) EXCEPT !.dom = Throw(@, "Error: non-string template")],
        domString |-> <<>>]
  ELSE [t |-> rendered(t), domString |-> domStringOf(t.render)]

\* createDOMMap(stringToHTML(domString)), the parsed body being at body
described(t, body) == [t |-> t, vdom |-> createDOMMap(t.dom.nodes, body, FALSE)]

\* create(domString): the parsed template, described
create(t, domString) ==
  described([t EXCEPT !.dom.nodes = stringToHTML(@, domString)],
            Len(t.dom.nodes) + 1)

\* create applied to what getDOMString returned, unless it threw
created(got) ==
  IF got.t.dom.err # NoError THEN [t |-> got.t, vdom |-> <<>>]
  ELSE create(got.t, got.domString)

\* getVDOM(): create(getDOMString())
getVDOM(t) == created(getDOMString(t))

\* update(nextVDOM, vDOM): the differ, on the shadow root
update(d, nextVDOM, retained) ==
  IF retained.isNull THEN Throw(d, "TypeError")
  ELSE diffDOM(d, nextVDOM, retained.map, shadowRoot)

\* getInitialRenderState() from the retained tree on
didMount(got) ==
  IF got.t.dom.err # NoError THEN got.t
  ELSE [runLifecycle([got.t EXCEPT !.vDOM = VDOM(got.vdom),
                                   !.dom = renderMapToDOM(@, got.vdom, shadowRoot)],
                     "elementDidMount", <<>>)
          EXCEPT !.isFirstRender = FALSE]

\* a getInitialRenderState that leaves isFirstRender set
getInitialRenderStateStayingFirst(t) ==
  [didMount(getVDOM(t)) EXCEPT !.isFirstRender = TRUE]

\* getInitialRenderState()
getInitialRenderState(t) == didMount(getVDOM(t))

\* getNextRenderState() after update
didUpdate(t) ==
  IF t.dom.err # NoError THEN t ELSE runLifecycle(t, "elementDidUpdate", <<>>)

\* getNextRenderState() from update on
patched(got) ==
  IF got.t.dom.err # NoError THEN got.t
  ELSE didUpdate([got.t EXCEPT !.dom = update(@, got.vdom, got.t.vDOM)])

\* getNextRenderState()
getNextRenderState(t) == patched(getVDOM(t))

\* renderDOM()
renderDOM(t) ==
  IF t.isFirstRender THEN getInitialRenderState(t) ELSE getNextRenderState(t)

\* the scheduler's tick: the flag is cleared, then the render function runs
flush(t) == renderDOM([t EXCEPT !.pending = FALSE])

-----------------------------------------------------------------------------
(* The state machine                                                       *)

\* the instance after its constructor, before any notification
initialize ==
  /\ isFirstRender = TRUE
  /\ isDisconnected = FALSE
  /\ vDOM = VDOM(<<>>)
  /\ nodes = <<NewNodeRec(DOCUMENT_FRAGMENT_NODE, "", FALSE, "")>>
  /\ pending = FALSE
  /\ render \in Renders
  /\ log = <<>>
  /\ hostAttached = FALSE
  /\ last = [op |-> "constructor", args |-> <<>>, pre |-> <<>>, requests |-> 0,
             err |-> NoError, muts |-> 0, renderCalls |-> 0, seen |-> <<>>]
  /\ steps = 0
  /\ passes = <<>>
  /\ detaches = 0
  /\ requests = 0
  /\ scenario = 0

\* a component whose hooks assign no property
Init == initialize /\ requesting = {}

\* the handlers of the scenario of C1, in order
LifecycleScenario ==
  <<"connectedCallback", "renderDOM", "setProperty", "renderDOM",
    "disconnectedCallback">>

\* the handler op has run on arguments args, making requested calls of
\* requestRender(), and has left the instance as t
Ran(op, args, requested, t) ==
  /\ steps < MaxSteps
  /\ isFirstRender' = t.isFirstRender
  /\ isDisconnected' = t.isDisconnected
  /\ vDOM' = t.vDOM
  /\ nodes' = t.dom.nodes
  /\ pending' = t.pending
  /\ render' = t.render
  /\ log' = t.log
  /\ last' = [op |-> op, args |-> args, pre |-> this, requests |-> requests,
              err |-> t.dom.err, muts |-> t.dom.muts,
              renderCalls |-> t.renderCalls, seen |-> t.seen]
  /\ steps' = steps + 1
  /\ passes' = IF op = "renderDOM"
               THEN Append(passes, [render |-> t.render, err |-> t.dom.err])
               ELSE IF op = "disconnectedCallback" THEN <<>> ELSE passes
  /\ detaches' = IF op = "disconnectedCallback" THEN detaches + 1 ELSE detaches
  /\ requests' = IF op = "renderDOM" THEN (IF t.pending THEN 1 ELSE 0)
                 ELSE requests + requested
  /\ requesting' = t.requesting
  /\ scenario' = IF /\ scenario = steps
                    /\ steps < Len(LifecycleScenario)
                    /\ op = LifecycleScenario[steps + 1]
                    /\ t.dom.err = NoError
                 THEN steps + 1 ELSE -1

\* the host attaches the element, or delivers a late attach notification
Attach ==
  \E isConnected \in BOOLEAN :
    /\ Ran("connectedCallback", <<isConnected>>,
           IF isConnected /\ ~isDisconnected THEN 1 ELSE 0,
           connectedCallback(this, isConnected))
    /\ hostAttached' = TRUE

\* the host detaches the element
Detach ==
  /\ hostAttached
  /\ Ran("disconnectedCallback", <<>>, 0, disconnectedCallback(this))
  /\ hostAttached' = FALSE

\* the host moves the element to another document
Adopt ==
  /\ Ran("adoptedCallback", <<>>, 0, adoptedCallback(this))
  /\ UNCHANGED hostAttached

\* the host reports an attribute change
AttributeChanged ==
  \E oldValue \in AttributeValues, newValue \in AttributeValues :
    /\ Ran("attributeChangedCallback", <<"first-name", oldValue, newValue>>, 0,
           attributeChangedCallback(this, "first-name", oldValue, newValue))
    /\ UNCHANGED hostAttached

\* user code changes a property: render() gives another result from now on,
\* and the property's setter requests a render
SetProperty ==
  \E r \in Returns \ {render} :
    /\ render \in Returns
    /\ Ran("setProperty", <<r>>, 1, setText(this, r))
    /\ UNCHANGED hostAttached

\* user code calls requestRender()
RequestRender ==
  /\ Ran("requestRender", <<>>, 1, requestRender(this))
  /\ UNCHANGED hostAttached

\* the animation frame fires with a render pending
Tick ==
  /\ pending
  /\ Ran("renderDOM", <<>>, 0, flush(this))
  /\ UNCHANGED hostAttached

Next ==
  \/ Attach
  \/ Detach
  \/ Adopt
  \/ AttributeChanged
  \/ SetProperty
  \/ RequestRender
  \/ Tick

Spec == Init /\ [][Next]_vars

\* a component whose mounted hook, or whose updated hook, assigns this.text
Requesting == {{"elementDidMount"}, {"elementDidUpdate"}}

\* the component of the accessor test: render() is defined and gives a string
ReentrantInit ==
  /\ initialize
  /\ render \in {"A", "B"}
  /\ requesting \in Requesting

ReentrantSpec == ReentrantInit /\ [][Next]_vars

-----------------------------------------------------------------------------
(* The differ on its own: diffDOM applied to a live tree that the current  *)
(* description describes, for every pair of the templates below            *)

\* applications of diffDOM in one run
MaxDiffs == 2

Three == <<"3">>
Four == <<"4">>
Red == <<"c", "o", "l", "o", "r", ":", " ", "r", "e", "d">>
Blue == <<"c", "o", "l", "o", "r", ":", " ", "b", "l", "u", "e">>
RedMargin == Red \o <<";", " ", "m", "a", "r", "g", "i", "n", ":", " ", "1", "p", "x">>

DiffNames ==
  {"ab", "bc", "blue", "divempty", "empty", "five", "kept", "nested",
   "nested2", "redmargin", "styled", "text", "text2", "two"}

\* the parsed templates the differ is run on
DiffTemplate(name) ==
  CASE name = "ab" ->
         <<Markup("p", <<Attr("a", One), Attr("b", Two)>>, "", <<>>)>>
    [] name = "bc" ->
         <<Markup("p", <<Attr("b", Three), Attr("c", Four)>>, "", <<>>)>>
    [] name = "blue" ->
         <<Markup("p", <<Attr("style", Blue)>>, "", <<>>)>>
    [] name = "divempty" ->
         <<Markup("div", <<Attr("a", One)>>, "", <<>>)>>
    [] name = "empty" ->
         <<Markup("p", <<Attr("a", One), Attr("hidden", <<>>)>>, "", <<>>)>>
    [] name = "five" ->
         <<Markup("p", <<Attr("a", One)>>, "", <<>>),
           Markup("span", <<>>, "", <<>>),
           Markup("b", <<>>, "", <<Markup("#text", <<>>, "hi", <<>>)>>),
           Markup("#text", <<>>, "hi", <<>>),
           Markup("#comment", <<>>, "note", <<>>)>>
    [] name = "kept" ->
         <<Markup("p", <<Attr("hidden", <<>>), Attr("b", Two)>>, "", <<>>),
           Markup("span", <<>>, "", <<>>)>>
    [] name = "nested" ->
         <<Markup("div", <<Attr("a", One)>>, "",
                  <<Markup("span", <<Attr("a", One), Attr("b", Two)>>, "", <<>>),
                    Markup("b", <<>>, "", <<Markup("#text", <<>>, "hi", <<>>)>>)>>)>>
    [] name = "nested2" ->
         <<Markup("div", <<Attr("a", Two)>>, "",
                  <<Markup("span", <<Attr("b", Three), Attr("c", <<>>)>>, "", <<>>)>>)>>
    [] name = "redmargin" ->
         <<Markup("p", <<Attr("style", RedMargin)>>, "", <<>>)>>
    [] name = "styled" ->
         <<Markup("p", <<Attr("class", <<"x">>), Attr("style", Red), Attr("c", Four)>>,
                  "", <<>>)>>
    [] name = "text" ->
         <<Markup("#text", <<>>, "hi", <<>>), Markup("#comment", <<>>, "note", <<>>)>>
    [] name = "text2" ->
         <<Markup("#text", <<>>, "bye", <<>>), Markup("#comment", <<>>, "other", <<>>)>>
    [] name = "two" ->
         <<Markup("p", <<Attr("a", One), Attr("b", Two)>>, "", <<>>),
           Markup("p", <<Attr("hidden", <<>>), Attr("b", Two)>>, "", <<>>)>>

\* a live tree built from one template, with its description as current
DiffInit ==
  /\ \E name \in DiffNames :
       /\ nodes = parseInto(<<NewNodeRec(DOCUMENT_FRAGMENT_NODE, "", FALSE, "")>>,
                            shadowRoot, DiffTemplate(name), FALSE)
       /\ render = name
  /\ vDOM = VDOM(liveTree(nodes))
  /\ isFirstRender = FALSE
  /\ isDisconnected = FALSE
  /\ pending = FALSE
  /\ log = <<>>
  /\ hostAttached = TRUE
  /\ last = [op |-> "constructor", args |-> <<>>, pre |-> <<>>, requests |-> 0,
             err |-> NoError, muts |-> 0, renderCalls |-> 0, seen |-> <<>>]
  /\ steps = 0
  /\ passes = <<>>
  /\ detaches = 0
  /\ requests = 0
  /\ requesting = {}
  /\ scenario = -1

\* diffDOM has run on templateMap and domMap and left the DOM as d
Diffed(name, templateMap, domMap, d) ==
  /\ steps < MaxDiffs
  /\ nodes' = d.nodes
  /\ vDOM' = VDOM(domMap)
  /\ render' = name
  /\ last' = [op |-> "diffDOM", args |-> <<templateMap>>, pre |-> this,
              requests |-> 0, err |-> d.err, muts |-> d.muts,
              renderCalls |-> 0, seen |-> <<>>]
  /\ steps' = steps + 1
  /\ UNCHANGED <<isFirstRender, isDisconnected, pending, log, hostAttached,
                 passes, detaches, requests, requesting, scenario>>

DiffMaps(name, parsed, templateMap, domMap) ==
  Diffed(name, templateMap, domMap,
         diffDOM(Dom(parsed, 0, NoError), templateMap, domMap, shadowRoot))

DiffParsed(name, parsed, body) ==
  DiffMaps(name, parsed, createDOMMap(parsed, body, FALSE), liveTree(nodes))

\* diffDOM(templateMap, domMap, element): templateMap describes a parsed
\* template, domMap the live children of the root as they are now
Diff ==
  \E name \in DiffNames :
    DiffParsed(name, stringToHTML(nodes, DiffTemplate(name)), Len(nodes) + 1)

DiffNext == Diff

DiffSpec == DiffInit /\ [][DiffNext]_vars

-----------------------------------------------------------------------------
(* Reading the history                                                     *)

\* the names of the hooks in a log
hookNames(l) == [i \in 1..Len(l) |-> l[i].hook]

\* how many entries of a sequence satisfy a test
Count(seq, Test(_)) == Len(SelectSeq(seq, Test))

\* the last position of a sequence whose entry satisfies a test, 0 if none
LastIndex(seq, Test(_)) ==
  LET hits == {i \in 1..Len(seq) : Test(seq[i])}
  IN IF hits = {} THEN 0 ELSE CHOOSE i \in hits : \A j \in hits : j <= i

\* the last handler was a reconciliation pass
passRan == last.op = "renderDOM"

\* true when a handler left the live tree under the shadow root as it was
liveUnchanged == liveTree(nodes) = liveTree(last.pre.dom.nodes)

-----------------------------------------------------------------------------
(* C1: attach, pass, property change, pass, detach                         *)

\* the run is the scenario, and both of its passes completed
inLifecycleScenario == scenario = Len(LifecycleScenario)

\* C1: when an instance is attached, reconciled at the next tick, has a
\* property changed, is reconciled at the following tick and is then
\* detached, the hooks invoked are connected, mounted, updated, will-unmount
\* in this order, each once, and the retained tree is released.
C1_LifecycleOrder ==
  inLifecycleScenario =>
    /\ hookNames(log) = <<"elementDidConnect", "elementDidMount",
                          "elementDidUpdate", "elementWillUnmount">>
    /\ vDOM.isNull

C1_Witness == inLifecycleScenario /\ Len(log) = 4

-----------------------------------------------------------------------------
(* C2: a pass that runs after a detach                                     *)

\* C2: a render scheduled before a detach is a no-op when its tick fires:
\* render() is not called, the live tree and the retained tree are left
\* alone, and neither the mounted nor the updated hook is invoked.
C2_DetachedPassIsNoOp ==
  (passRan /\ last.pre.isDisconnected) =>
    /\ last.renderCalls = 0
    /\ last.muts = 0
    /\ liveUnchanged
    /\ vDOM = last.pre.vDOM
    /\ log = last.pre.log

-----------------------------------------------------------------------------
(* C3: the first pass after a re-attach                                    *)

\* the instance has rendered, was then detached, and has since been attached
\* again (an attach that was accepted) without a pass having run yet
reattachedBeforePass(l) ==
  LET names == hookNames(l)
      u == LastIndex(names, LAMBDA h : h = "elementWillUnmount")
  IN /\ u > 0
     /\ \E i \in 1..(u - 1) : names[i] = "elementDidMount"
     /\ \E i \in (u + 1)..Len(names) : names[i] = "elementDidConnect"
     /\ \A i \in (u + 1)..Len(names) :
          names[i] \notin {"elementDidMount", "elementDidUpdate"}

\* C3: after render, detach and a real re-attach, the next pass is a first
\* render: it builds a new retained tree, renders it into the root, and
\* invokes the mounted hook, not the updated hook.
C3_ReattachRendersAfresh ==
  (passRan /\ reattachedBeforePass(last.pre.log)
     /\ ~last.pre.isDisconnected /\ last.pre.render \in {"A", "B"}) =>
    /\ last.err = NoError
    /\ log = Append(last.pre.log, Hook("elementDidMount", <<>>))
    /\ ~vDOM.isNull
    /\ \A i \in 1..Len(vDOM.map) :
         nodes[vDOM.map[i].node].parentNode = shadowRoot

-----------------------------------------------------------------------------
(* C4: mounted once, then updated                                          *)

noDetachSoFar == detaches = 0

\* the passes that completed
completedPasses == Count(passes, LAMBDA e : e.err = NoError)

\* C4: as long as the instance has not been detached, the mounted hook is
\* invoked once, by the first pass that completes; every later pass that
\* completes invokes the updated hook and not the mounted hook; the updated
\* hook is never invoked before the mounted hook.
C4_MountedOnceThenUpdated ==
  noDetachSoFar =>
    LET names == hookNames(log)
        mounted == Count(names, LAMBDA h : h = "elementDidMount")
        updated == Count(names, LAMBDA h : h = "elementDidUpdate")
    IN /\ mounted = (IF completedPasses > 0 THEN 1 ELSE 0)
       /\ updated = (IF completedPasses > 0 THEN completedPasses - 1 ELSE 0)
       /\ \A i \in 1..Len(names) :
            names[i] = "elementDidUpdate" =>
              \E j \in 1..(i - 1) : names[j] = "elementDidMount"
       /\ (passRan /\ last.err = NoError) =>
            log = Append(last.pre.log,
                         Hook(IF last.pre.isFirstRender THEN "elementDidMount"
                              ELSE "elementDidUpdate", <<>>))
       /\ isFirstRender = (completedPasses = 0)

C4_Witness == noDetachSoFar /\ completedPasses >= 3

-----------------------------------------------------------------------------
(* C5: requests coalesce                                                   *)

\* C5: any number N >= 1 of requestRender() calls before a tick give one
\* pass at that tick: a request runs no pass itself and leaves one render
\* pending however many were made, and the pass at the tick calls the render
\* function once and leaves no render pending.
C5_RequestsCoalesce ==
  /\ last.op \in {"requestRender", "setProperty"} =>
       /\ pending
       /\ last.renderCalls = 0 /\ last.muts = 0
       /\ log = last.pre.log /\ vDOM = last.pre.vDOM
       /\ nodes = last.pre.dom.nodes
  /\ passRan =>
       /\ last.requests >= 1 /\ last.pre.pending
       /\ ~pending /\ requests = 0
       /\ last.renderCalls <= 1
  /\ pending <=> requests >= 1

\* three requests, then the tick
C5_Witness ==
  /\ passRan /\ last.requests >= 3
  /\ last.renderCalls = 1 /\ last.err = NoError

-----------------------------------------------------------------------------
(* C6: attach notifications while marked detached                          *)

\* C6: an attach notification that finds the instance marked detached is
\* ignored: no hook, no style element, no render scheduled; the mark stays,
\* and nothing but adoptedCallback resets it.
C6_AttachIgnoredWhileDetached ==
  /\ (last.op = "connectedCallback" /\ last.pre.isDisconnected) =>
       /\ log = last.pre.log
       /\ nodes = last.pre.dom.nodes
       /\ pending = last.pre.pending
       /\ isDisconnected
  /\ (last.op # "constructor" /\ last.pre.isDisconnected /\ ~isDisconnected) =>
       last.op = "adoptedCallback"

C6_Witness ==
  /\ last.op = "connectedCallback" /\ last.args = <<TRUE>>
  /\ last.pre.isDisconnected /\ ~last.pre.pending
  /\ ~last.pre.isFirstRender

-----------------------------------------------------------------------------
(* C7: render missing, or not returning a string                           *)

\* C7: with no render function, or one that returns no string, the pass
\* throws an Error to its caller; the live tree is not mutated, neither the
\* mounted nor the updated hook is invoked, and isFirstRender and the
\* retained tree keep their values.
C7_BadRenderIsFatal ==
  (passRan /\ last.pre.render \in {"NoRender", "NonString"}) =>
    /\ last.err = (IF last.pre.render = "NoRender"
                   THEN "Error: no render method"
                   ELSE "Error: non-string template")
    /\ last.muts = 0
    /\ liveUnchanged
    /\ log = last.pre.log
    /\ isFirstRender = last.pre.isFirstRender
    /\ vDOM = last.pre.vDOM

C7_Witness ==
  /\ passRan /\ last.pre.render = "NonString"
  /\ ~last.pre.isFirstRender /\ ~last.pre.vDOM.isNull

-----------------------------------------------------------------------------
(* C8: attribute-changed notifications                                     *)

\* C8: an attribute-changed notification with equal old and new value
\* invokes no hook; with different values it invokes the attribute-changed
\* hook with (name, old, new), whatever the lifecycle state.
C8_AttributeChangeHook ==
  last.op = "attributeChangedCallback" =>
    /\ last.args[2] = last.args[3] => log = last.pre.log
    /\ last.args[2] # last.args[3] =>
         log = Append(last.pre.log, Hook("elementAttributeChanged", last.args))
    /\ nodes = last.pre.dom.nodes /\ pending = last.pre.pending

C8_Witness ==
  /\ last.op = "attributeChangedCallback" /\ last.args[2] # last.args[3]
  /\ last.pre.isDisconnected /\ ~last.pre.isFirstRender

-----------------------------------------------------------------------------
(* C9: the same output twice in a row                                      *)

\* C9: when a pass follows a completed pass with the same render output,
\* it completes and mutates nothing in the live tree: no node created,
\* removed or replaced, no attribute, style or text written.
C9_SameOutputMutatesNothing ==
  (passRan /\ Len(passes) >= 2
     /\ passes[Len(passes) - 1].err = NoError
     /\ passes[Len(passes)].render = passes[Len(passes) - 1].render) =>
    /\ last.err = NoError
    /\ last.muts = 0
    /\ liveUnchanged

-----------------------------------------------------------------------------
(* C10: attributes after a diff                                            *)

\* the attributes that are neither class nor style, as a set
plainAttributes(attributes) ==
  {attributes[i] : i \in {j \in 1..Len(attributes) :
                            attributes[j].name \notin {"class", "style"}}}

\* what the live node is to carry: next's attributes as they are (literal),
\* or with an empty value that is new or changed stored as "true"
expectedAttributes(template, existing, literal) ==
  LET stored(attribute) ==
        LET old == find(existing.attributes, attribute.name)
        IN IF /\ ~literal
              /\ attribute.value = <<>>
              /\ (old = <<>> \/ old[1].value # attribute.value)
           THEN TrueText ELSE attribute.value
  IN {Attr(a.name, stored(a)) : a \in plainAttributes(template.attributes)}

RECURSIVE attributesReconciled(_, _, _, _)
\* every pair of the same type that the differ compares, at this level and
\* in the children it recurses into, has the expected attributes on its node
attributesReconciled(ns, templateMap, domMap, literal) ==
  \A i \in 1..Len(templateMap) :
    (i <= Len(domMap) /\ templateMap[i].type = domMap[i].type) =>
      /\ plainAttributes(ns[domMap[i].node].attributes)
           = expectedAttributes(templateMap[i], domMap[i], literal)
      /\ (/\ templateMap[i].content = domMap[i].content
          /\ Len(templateMap[i].children) > 0
          /\ Len(domMap[i].children) > 0) =>
           attributesReconciled(ns, templateMap[i].children,
                                domMap[i].children, literal)

diffRan == last.op = "diffDOM" /\ last.err = NoError

\* C10 as stated: after a diff, an element whose type is unchanged carries
\* exactly next's attributes (class and style aside), each with next's
\* value, also when that value is the empty string.
C10_AttributesAreNext ==
  diffRan => attributesReconciled(nodes, last.args[1], vDOM.map, TRUE)

\* C10, amended: after a diff, an element whose type is unchanged carries
\* exactly next's attribute names (class and style aside); each has next's
\* value, except that an empty value which is new or differs from current's
\* is stored as "true".
C10_AttributesAreNextOrTrue ==
  diffRan => attributesReconciled(nodes, last.args[1], vDOM.map, FALSE)

\* current {a: 1, b: 2}, next {b: 3, c: 4}: the live node has {b: 3, c: 4}
C10_Witness ==
  /\ diffRan
  /\ last.pre.render = "ab" /\ render = "bc"
  /\ plainAttributes(nodes[vDOM.map[1].node].attributes)
       = {Attr("b", Three), Attr("c", Four)}

-----------------------------------------------------------------------------
(* C11: the style attribute after a diff                                   *)

\* the inline style declarations an attribute list gives, as a set
styleOf(attributes) ==
  {styleAt(attributes, attrIndex(attributes, "style"))[k] :
     k \in 1..Len(styleAt(attributes, attrIndex(attributes, "style")))}

\* the attribute list has a style attribute
hasStyle(attributes) == attrIndex(attributes, "style") > 0

\* next and current are of one type and both carry a style, not the same one
styleChanges(template, existing) ==
  /\ template.type = existing.type
  /\ hasStyle(template.attributes) /\ hasStyle(existing.attributes)
  /\ find(template.attributes, "style") # find(existing.attributes, "style")

\* C11: when an element's style attribute changes between current and
\* next, after the diff the live node's inline style properties are those
\* of the new style string, each with the new value: a property that is not
\* in the new string is cleared.
C11_StylesAreNext ==
  diffRan =>
    \A i \in 1..Len(last.args[1]) :
      (i <= Len(vDOM.map) /\ styleChanges(last.args[1][i], vDOM.map[i])) =>
        styleOf(nodes[vDOM.map[i].node].attributes)
          = styleOf(last.args[1][i].attributes)

-----------------------------------------------------------------------------
(* C12: fewer siblings in next than in current                             *)

\* the differ goes on from a pair to the pair's children (5c)
diffDescends(template, existing) ==
  /\ template.type = existing.type
  /\ template.content = existing.content
  /\ Len(template.children) > 0
  /\ Len(existing.children) > 0

RECURSIVE trailingRemoved(_, _, _, _)
\* where current has more entries than next, at this level and in the
\* children the differ recurses into: the trailing live nodes are out of
\* the parent, the parent is left with as many children as next has, a
\* node of an unchanged type is still at its position, with its attributes
\* reconciled, and a position whose type changed holds a node of next's type
trailingRemoved(ns, templateMap, domMap, parent) ==
  /\ Len(domMap) > Len(templateMap) =>
       /\ \A i \in (Len(templateMap) + 1)..Len(domMap) :
            /\ ns[domMap[i].node].parentNode = 0
            /\ \A k \in 1..Len(ns[parent].childNodes) :
                 ns[parent].childNodes[k] # domMap[i].node
       /\ Len(ns[parent].childNodes) = Len(templateMap)
       /\ \A i \in 1..Len(templateMap) :
            IF templateMap[i].type = domMap[i].type
            THEN /\ ns[parent].childNodes[i] = domMap[i].node
                 /\ plainAttributes(ns[domMap[i].node].attributes)
                      = expectedAttributes(templateMap[i], domMap[i], FALSE)
            ELSE /\ ns[parent].childNodes[i] # domMap[i].node
                 /\ typeOf(ns[ns[parent].childNodes[i]]) = templateMap[i].type
  /\ \A i \in 1..Len(templateMap) :
       (i <= Len(domMap) /\ diffDescends(templateMap[i], domMap[i])) =>
         trailingRemoved(ns, templateMap[i].children, domMap[i].children,
                         domMap[i].node)

\* C12: when current has m entries and next has n < m, the diff removes
\* from the parent exactly the m - n live nodes at the positions n..m-1,
\* removes none below n, and diffs the positions 0..n-1 pairwise by index.
C12_TrailingRemoved ==
  diffRan => trailingRemoved(nodes, last.args[1], vDOM.map, shadowRoot)

\* current has five children, next has two: three are removed
C12_Witness ==
  /\ diffRan
  /\ last.pre.render = "five" /\ render = "kept"
  /\ Len(nodes[shadowRoot].childNodes) = 2
  /\ nodes[vDOM.map[3].node].parentNode = 0

-----------------------------------------------------------------------------
(* C13: a sibling of another type                                          *)

\* the class an attribute list gives, as a set of at most one value
classOf(attributes) ==
  {attributes[k].value : k \in {j \in 1..Len(attributes) :
                                  attributes[j].name = "class"}}

\* the plain attributes a node built from next is to carry: next's as they
\* are (literal), or with an empty value stored as "true"
builtAttributes(attributes, literal) ==
  {Attr(a.name, IF ~literal /\ a.value = <<>> THEN TrueText ELSE a.value) :
     a \in plainAttributes(attributes)}

RECURSIVE builtFrom(_, _, _)
\* the description live of a live subtree is what a node built from the
\* description next alone has: type, attributes, class, style properties,
\* content, and children in order
builtFrom(live, next, literal) ==
  /\ live.type = next.type
  /\ live.content = next.content
  /\ plainAttributes(live.attributes) = builtAttributes(next.attributes, literal)
  /\ classOf(live.attributes) = classOf(next.attributes)
  /\ styleOf(live.attributes) = styleOf(next.attributes)
  /\ Len(live.children) = Len(next.children)
  /\ \A k \in 1..Len(next.children) :
       builtFrom(live.children[k], next.children[k], literal)

RECURSIVE replacedWholesale(_, _, _, _, _)
\* at every index where next's type is not current's, at this level and in
\* the children the differ recurses into: the old live node is out of the
\* parent, and the node at its position is built from next alone
replacedWholesale(ns, templateMap, domMap, parent, literal) ==
  \A i \in 1..Len(templateMap) :
    i <= Len(domMap) =>
      /\ templateMap[i].type # domMap[i].type =>
           /\ ns[domMap[i].node].parentNode = 0
           /\ \A k \in 1..Len(ns[parent].childNodes) :
                ns[parent].childNodes[k] # domMap[i].node
           /\ i <= Len(ns[parent].childNodes)
           /\ builtFrom(createDOMMap(ns, parent, FALSE)[i], templateMap[i], literal)
      /\ diffDescends(templateMap[i], domMap[i]) =>
           replacedWholesale(ns, templateMap[i].children, domMap[i].children,
                             domMap[i].node, literal)

\* C13 as stated: where next's type differs from current's, the old live
\* node is detached and the node at its position matches next exactly:
\* tag, attributes, content and subtree, nothing carried over.
C13_ReplacedMatchesNext ==
  diffRan => replacedWholesale(nodes, last.args[1], vDOM.map, shadowRoot, TRUE)

\* C13, amended: where next's type differs from current's, the old live
\* node is detached and the node at its position is built from next alone:
\* it matches next in tag, attributes, content and subtree, except that an
\* attribute whose value is empty is stored as "true".
C13_ReplacedIsBuiltFromNext ==
  diffRan => replacedWholesale(nodes, last.args[1], vDOM.map, shadowRoot, FALSE)

\* a p with attributes is replaced by a div with a subtree of its own
C13_Witness ==
  /\ diffRan
  /\ last.pre.render = "ab" /\ render = "nested"
  /\ nodes[vDOM.map[1].node].parentNode = 0
  /\ nodes[nodes[shadowRoot].childNodes[1]].tagName = "DIV"
  /\ Len(nodes[nodes[shadowRoot].childNodes[1]].childNodes) = 2

-----------------------------------------------------------------------------
(* C14: children for a live node that has none                             *)

\* the live children of a node are those the descriptions describe, built
\* in order with their subtrees
childrenBuilt(live, children) ==
  /\ Len(live) = Len(children)
  /\ \A k \in 1..Len(children) :
       k <= Len(live) => builtFrom(live[k], children[k], FALSE)

RECURSIVE childrenFilled(_, _, _, _)
\* at every index where the live node has no children and next, of the same
\* type, has some, at this level and in the children the differ recurses
\* into: the live node has next's children, and the parent has as many
\* children as next has siblings
childrenFilled(ns, templateMap, domMap, parent) ==
  \A i \in 1..Len(templateMap) :
    i <= Len(domMap) =>
      /\ (/\ templateMap[i].type = domMap[i].type
          /\ Len(domMap[i].children) = 0
          /\ Len(templateMap[i].children) > 0) =>
           /\ childrenBuilt(createDOMMap(ns, domMap[i].node, FALSE),
                            templateMap[i].children)
           /\ Len(ns[parent].childNodes) = Len(templateMap)
      /\ diffDescends(templateMap[i], domMap[i]) =>
           childrenFilled(ns, templateMap[i].children, domMap[i].children,
                          domMap[i].node)

\* C14: when the live node at an index has no children and next, of the
\* same type, has children, then after the diff that live node has exactly
\* the children next describes, in order and with their subtrees, and its
\* parent has gained no extra children.
C14_ChildrenFilled ==
  diffRan => childrenFilled(nodes, last.args[1], vDOM.map, shadowRoot)

-----------------------------------------------------------------------------
(* C15: class and style dropped by next                                    *)

\* the attribute list has a class attribute
hasClass(attributes) == attrIndex(attributes, "class") > 0

\* the classes of a live node's class list: none when the attribute is
\* absent or empty
classList(attributes) == classOf(attributes) \ {<<>>}

\* for the pairs of one type: where current has a class and next has none,
\* the live node's class list is empty
classCleared(ns, templateMap, domMap) ==
  \A i \in 1..Len(templateMap) :
    (/\ i <= Len(domMap) /\ templateMap[i].type = domMap[i].type
     /\ hasClass(domMap[i].attributes) /\ ~hasClass(templateMap[i].attributes)) =>
      classList(ns[domMap[i].node].attributes) = {}

\* for the pairs of one type: where current has a style and next has none,
\* the live node has no inline style property
styleCleared(ns, templateMap, domMap) ==
  \A i \in 1..Len(templateMap) :
    (/\ i <= Len(domMap) /\ templateMap[i].type = domMap[i].type
     /\ hasStyle(domMap[i].attributes) /\ ~hasStyle(templateMap[i].attributes)) =>
      styleOf(ns[domMap[i].node].attributes) = {}

\* C15: when next has no class attribute and the live node has one, the
\* diff clears the live node's class list; when next has no style attribute
\* and the live node has one, the diff clears every inline style property,
\* so that the live node has none set afterwards.
C15_ClassAndStyleCleared ==
  diffRan =>
    /\ classCleared(nodes, last.args[1], vDOM.map)
    /\ styleCleared(nodes, last.args[1], vDOM.map)

-----------------------------------------------------------------------------
(* C16: the live children after a diff                                     *)

\* the live descriptions equal next: as many siblings, and at every
\* position the same type, attributes, content and children
equalsNext(live, next) ==
  /\ Len(live) = Len(next)
  /\ \A k \in 1..Len(next) : k <= Len(live) => builtFrom(live[k], next[k], TRUE)

\* C16: after diffDOM(next, current, parent), current describing parent's
\* live children accurately, the live children of parent read recursively
\* equal next, whatever separates current from next.
C16_LiveEqualsNext ==
  diffRan => equalsNext(liveTree(nodes), last.args[1])

-----------------------------------------------------------------------------
(* C17: the retained tree after a pass                                     *)

\* a retained entry is what describing its live node gives now: the node is
\* a child of some parent, and the description of that child, with type,
\* attributes, content and children, is the entry
entryAccurate(ns, entry) ==
  /\ ns[entry.node].parentNode # 0
  /\ \E k \in 1..Len(ns[ns[entry.node].parentNode].childNodes) :
       createDOMMap(ns, ns[entry.node].parentNode, FALSE)[k] = entry

\* the last handler was a pass that completed
passCompleted == passRan /\ last.err = NoError

\* C17: after every pass that completes, first or later, the retained tree
\* describes the live tree: every retained entry has the type, attributes,
\* content and children of the live node it refers to.
C17_RetainedDescribesLive ==
  passCompleted =>
    /\ ~vDOM.isNull
    /\ \A i \in 1..Len(vDOM.map) : entryAccurate(nodes, vDOM.map[i])

-----------------------------------------------------------------------------
(* C18: a render requested from inside the mounted or the updated hook     *)

\* the hook a completed pass invokes
hookOfPass ==
  IF last.pre.isFirstRender THEN "elementDidMount" ELSE "elementDidUpdate"

\* C18: a requestRender() made inside the mounted or the updated hook runs
\* no pass inside the running pass: the pass calls render() once and invokes
\* its one hook; the request is kept, one render is pending when the pass
\* returns, and the pass it yields at a later tick invokes the updated hook;
\* the mounted hook is never invoked twice.
C18_HookRequestDeferred ==
  /\ passCompleted =>
       /\ last.renderCalls = 1
       /\ log = Append(last.pre.log, Hook(hookOfPass, <<>>))
       /\ pending <=> hookOfPass \in requesting
       /\ requests = (IF hookOfPass \in requesting THEN 1 ELSE 0)
       /\ isFirstRender = FALSE
  /\ (passCompleted /\ ~last.pre.isFirstRender) =>
       log[Len(log)].hook = "elementDidUpdate"
  /\ Count(hookNames(log), LAMBDA h : h = "elementDidMount") <= 1

\* attach, the first pass whose mounted hook assigns this.text, and the pass
\* that this request alone has yielded
C18_Witness ==
  /\ passCompleted /\ steps = 3
  /\ requesting = {"elementDidMount"}
  /\ hookNames(log) = <<"elementDidConnect", "elementDidMount", "elementDidUpdate">>
  /\ ~pending

-----------------------------------------------------------------------------
(* C19: what an accepted attach notification does, and in which order      *)

\* the last handler was an attach notification that was accepted
attachAccepted ==
  /\ last.op = "connectedCallback" /\ last.args = <<TRUE>>
  /\ ~last.pre.isDisconnected

\* the children of the shadow root in an arena
rootChildren(ns) == ns[shadowRoot].childNodes

\* the node is a style element of type text/css whose text is the static
\* styles
isStyleTag(ns, id) ==
  /\ ns[id].nodeType = ELEMENT_NODE /\ ns[id].tagName = "STYLE"
  /\ ns[id].attributes = <<Attr("type", TextCss)>>
  /\ Len(ns[id].childNodes) = 1
  /\ ns[ns[id].childNodes[1]].nodeType = TEXT_NODE
  /\ ns[ns[id].childNodes[1]].data = styles

\* an accepted attach notification invoked the connected hook on the root as
\* the notification found it, then appended one style element, then left a
\* render pending, and ran no pass
connectStylesRequest ==
  /\ log = Append(last.pre.log, Hook("elementDidConnect", <<>>))
  /\ Len(last.seen) = 1
  /\ last.seen[1].childNodes = rootChildren(last.pre.dom.nodes)
  /\ last.seen[1].vDOM = last.pre.vDOM
  /\ Len(nodes) = Len(last.pre.dom.nodes) + 2
  /\ rootChildren(nodes) =
       Append(rootChildren(last.pre.dom.nodes), Len(last.pre.dom.nodes) + 1)
  /\ isStyleTag(nodes, Len(last.pre.dom.nodes) + 1)
  /\ pending
  /\ last.renderCalls = 0
  /\ vDOM = last.pre.vDOM /\ isFirstRender = last.pre.isFirstRender

\* the mounted hook is invoked by a pass and by no other handler
mountedAtATick ==
  (/\ last.op # "constructor" /\ Len(log) > Len(last.pre.log)
   /\ log[Len(log)].hook = "elementDidMount") => passRan

-----------------------------------------------------------------------------
(* C20: the style elements under the root                                  *)

\* the injected style elements the root holds
styleTags(ns) ==
  SelectSeq(rootChildren(ns), LAMBDA id : isStyleTag(ns, id))

\* C20: whatever attach, detach and adopt notifications an instance is
\* given, its root never holds more than one injected style element.
C20_StylesInjectedOnce == Len(styleTags(nodes)) <= 1

-----------------------------------------------------------------------------
(* C21: what the will-unmount hook finds, and what the detach leaves       *)

\* the last handler was a detach notification
detachRan == last.op = "disconnectedCallback"

\* the detach notification invoked the will-unmount hook on the instance as
\* the notification found it, and only then released the retained tree and
\* marked the instance detached
unmountThenRelease ==
  /\ log = Append(last.pre.log, Hook("elementWillUnmount", <<>>))
  /\ Len(last.seen) = 1
  /\ last.seen[1].vDOM = last.pre.vDOM
  /\ last.seen[1].isDisconnected = last.pre.isDisconnected
  /\ vDOM = NullVDOM /\ isDisconnected
  /\ nodes = last.pre.dom.nodes /\ pending = last.pre.pending

\* C21: on a detach notification the will-unmount hook is invoked while the
\* retained tree is still there and the instance is not yet marked detached;
\* the tree is released and the mark set only after the hook has returned.
C21_UnmountHookBeforeRelease ==
  detachRan =>
    /\ unmountThenRelease
    /\ ~last.seen[1].vDOM.isNull
    /\ ~last.seen[1].isDisconnected

-----------------------------------------------------------------------------
(* C22: a sibling of the same type whose content differs                   *)

\* node.textContent is text: character data holds it; an element has no
\* child when it is empty, and else one text child that holds it
liveTextIs(ns, id, text) ==
  IF ns[id].nodeType \in {TEXT_NODE, COMMENT_NODE}
  THEN ns[id].data = text
  ELSE IF text = "" THEN ns[id].childNodes = <<>>
  ELSE /\ Len(ns[id].childNodes) = 1
       /\ ns[ns[id].childNodes[1]].nodeType = TEXT_NODE
       /\ ns[ns[id].childNodes[1]].data = text

\* none of the children current describes is a child of its node any more
formerChildrenGone(ns, existing) ==
  \A k \in 1..Len(existing.children) :
    /\ ns[existing.children[k].node].parentNode # existing.node
    /\ \A j \in 1..Len(ns[existing.node].childNodes) :
         ns[existing.node].childNodes[j] # existing.children[k].node

RECURSIVE contentOverwritten(_, _, _, _)
\* at every index where next and current have the same type and another
\* content, at this level and in the children the differ recurses into: the
\* live node is still at its position, its text is next's content (a content
\* that is not set being written as the empty text), its former children are
\* gone, and its attributes are reconciled
contentOverwritten(ns, templateMap, domMap, parent) ==
  \A i \in 1..Len(templateMap) :
    i <= Len(domMap) =>
      /\ (/\ templateMap[i].type = domMap[i].type
          /\ templateMap[i].content # domMap[i].content) =>
           /\ ns[parent].childNodes[i] = domMap[i].node
           /\ liveTextIs(ns, domMap[i].node, textOf(templateMap[i].content))
           /\ formerChildrenGone(ns, domMap[i])
           /\ plainAttributes(ns[domMap[i].node].attributes)
                = expectedAttributes(templateMap[i], domMap[i], FALSE)
      /\ diffDescends(templateMap[i], domMap[i]) =>
           contentOverwritten(ns, templateMap[i].children, domMap[i].children,
                              domMap[i].node)

\* C22: when next[i] and current[i] have the same type and next[i]'s content
\* differs from current[i]'s, after the diff the live node's text content is
\* next[i]'s content, the node keeps none of its former children, and its
\* attributes have been reconciled by the same diff.
C22_ContentOverwritten ==
  diffRan => contentOverwritten(nodes, last.args[1], vDOM.map, shadowRoot)

\* a text "hi" and a comment "note" become "bye" and "other"
C22_Witness ==
  /\ diffRan /\ last.pre.render = "text" /\ render = "text2"
  /\ nodes[vDOM.map[1].node].data = "bye"
  /\ nodes[vDOM.map[2].node].data = "other"
  /\ last.muts = 2

-----------------------------------------------------------------------------
(* C23: more siblings in next than in current                              *)

\* the child at position i of the parent is a node made by this diff from
\* the description next: none of current's nodes, not the parsed node of
\* next, and with next's type, attributes, content and subtree
appendedFrom(ns, parent, i, next, domMap, literal) ==
  /\ ns[ns[parent].childNodes[i]].parentNode = parent
  /\ ns[parent].childNodes[i] # next.node
  /\ \A j \in 1..Len(domMap) : ns[parent].childNodes[i] # domMap[j].node
  /\ builtFrom(createDOMMap(ns, parent, FALSE)[i], next, literal)

RECURSIVE appendedInOrder(_, _, _, _, _)
\* where next has more entries than current, at this level and in the
\* children the differ recurses into: the parent has as many children as
\* next has entries, those beyond current's last are new nodes built from
\* next's entries in order, and below that a node of an unchanged type is
\* still at its position and a position whose type changed holds a node of
\* next's type
appendedInOrder(ns, templateMap, domMap, parent, literal) ==
  /\ Len(templateMap) > Len(domMap) =>
       /\ Len(ns[parent].childNodes) = Len(templateMap)
       /\ \A i \in (Len(domMap) + 1)..Len(templateMap) :
            appendedFrom(ns, parent, i, templateMap[i], domMap, literal)
       /\ \A i \in 1..Len(domMap) :
            IF templateMap[i].type = domMap[i].type
            THEN ns[parent].childNodes[i] = domMap[i].node
            ELSE typeOf(ns[ns[parent].childNodes[i]]) = templateMap[i].type
  /\ \A i \in 1..Len(templateMap) :
       (i <= Len(domMap) /\ diffDescends(templateMap[i], domMap[i])) =>
         appendedInOrder(ns, templateMap[i].children, domMap[i].children,
                         domMap[i].node, literal)

\* C23: when next has more entries than current, for every index beyond
\* current's last a new live node built from next's entry, with all its
\* descendants, is appended to the parent in index order; the parent ends
\* with as many children as next has entries, and the nodes below current's
\* length keep their positions.
C23_MissingAppended ==
  diffRan => appendedInOrder(nodes, last.args[1], vDOM.map, shadowRoot, FALSE)

\* current has a text and a comment, next has five entries: a b element
\* with its text child, a text and a comment are appended in this order
C23_Witness ==
  /\ diffRan /\ last.pre.render = "text" /\ render = "five"
  /\ Len(nodes[shadowRoot].childNodes) = 5
  /\ typeOf(nodes[nodes[shadowRoot].childNodes[3]]) = "b"
  /\ Len(nodes[nodes[shadowRoot].childNodes[3]].childNodes) = 1
  /\ nodes[nodes[shadowRoot].childNodes[4]].nodeType = TEXT_NODE
  /\ nodes[nodes[shadowRoot].childNodes[5]].nodeType = COMMENT_NODE

-----------------------------------------------------------------------------
(* C24: detach notifications to an instance that is not connected          *)

\* how often a hook has been invoked
invoked(l, name) == Count(hookNames(l), LAMBDA h : h = name)

\* the instance was connected when the last handler began: the connected
\* hook had been invoked and the instance was not marked detached
wasConnected ==
  /\ invoked(last.pre.log, "elementDidConnect") > 0
  /\ ~last.pre.isDisconnected

\* C24: a detach notification to an instance that was never connected, or
\* that is already marked detached, invokes no hook; the will-unmount hook
\* is never invoked more often than the connected hook.
C24_UnmountOnlyWhenConnected ==
  /\ (detachRan /\ ~wasConnected) => log = last.pre.log
  /\ invoked(log, "elementWillUnmount") <= invoked(log, "elementDidConnect")

====
